---- MODULE Spec2Model ----
(***************************************************************************)
(* DNS failover service (handleFailover / handleDomainFailover and the     *)
(* tunnel-rule, DNS-record and notification helpers it calls).             *)
(*                                                                         *)
(* Spec      : one reconciliation pass of handleDomainFailover over the    *)
(*             configured domains, one action per await point.             *)
(* SpecRules : addTunnelRule / removeTunnelRule applied to an arbitrary    *)
(*             prior ingress list of one tunnel.                           *)
(* SpecFetch : one fetchWithRetry call, one action per await.              *)
(***************************************************************************)
EXTENDS Integers, Sequences, FiniteSets, TLC

(* ------------------------------ bounds --------------------------------- *)

\* largest number of tunnels in a DomainConfig
MaxTunnels == 3

\* longest prior ingress list handed to addTunnelRule / removeTunnelRule
MaxIngressLen == 3

\* number of consecutive rule edits applied to one tunnel in SpecRules
MaxCalls == 2

\* largest maxRetries handed to fetchWithRetry
MaxRetriesLimit == 3

\* longest sign parameter tried
MaxSignLen == 4

(* ------------------------------ universe ------------------------------- *)

Domains == {"a.example.com", "b.example.com"}

\* tunnel ids; the id of a tunnel differs from its index in the config
AllTunnels == {100 + j : j \in 1..MaxTunnels}

\* tunnels[-1] / a null nextTunnelId: no tunnel of the account
NullTunnel == 0

\* a rule without a hostname field
NoHost == "<none>"

FallbackService == "http_status:404"

OldService == "http://old-backend"

ServiceUrl(d) == IF d = "a.example.com" THEN "http://svc-a" ELSE "http://svc-b"

Rule(h, s) == [hostname |-> h, service |-> s, originRequest |-> "{}"]

FallbackRule == [hostname |-> NoHost, service |-> FallbackService, originRequest |-> "none"]

\* rules a tunnel configuration may hold before the service touches it
PriorRules ==
  { Rule(h, s) : h \in Domains, s \in {FallbackService, OldService} }
    \cup { [hostname |-> NoHost, service |-> s, originRequest |-> "none"] :
             s \in {FallbackService, OldService} }

RECURSIVE SeqsUpTo(_, _)
SeqsUpTo(S, n) ==
  IF n = 0 THEN { <<>> }
  ELSE LET shorter == SeqsUpTo(S, n - 1)
       IN  shorter \cup { Append(q, x) : q \in { r \in shorter : Len(r) = n - 1 }, x \in S }

(* ------------------------------ state ---------------------------------- *)

VARIABLES
  active,              \* domainsConfig: the domains of this run
  tunnels,             \* config.tunnels per domain
  dns,                 \* control plane: CNAME records found for the domain
  ingress,             \* control plane: config.ingress per tunnel
  dns0, ingress0,      \* the control-plane state when the run started
  pc,                  \* position of each domain task in handleDomainFailover
  outcome,             \* terminal state of the pass
  probe,               \* isReachable
  dnsRecord,           \* const dnsRecord
  currentTunnelIndex,
  loopI,               \* loop variable i of the scan
  nextTunnelIndex,
  fetched,             \* ingress read by add/removeTunnelRule, before its write
  checked,             \* health checks made, in order
  calls,               \* DNS and tunnel-configuration calls made, in order
  notes,               \* sendTelegramNotification calls made, in order
  response,            \* what the task's latest outbound call came back with
  run,                 \* handleFailover: awaiting Promise.allSettled, or past it
  rPrior, rConfig, rCalls,  \* SpecRules: one tunnel's ingress and the edits applied
  fMax,                \* fetchWithRetry: maxRetries
  fAttempt,            \* fetchWithRetry: loop variable attempt
  fPc,                 \* fetchWithRetry: awaiting fetch, awaiting the timer, or over
  fLog,                \* outcomes of the fetch calls made, in order
  fDelays,             \* delays waited, in order
  fResult,             \* what fetchWithRetry returned or threw
  hMethod,             \* handler: request.method
  hConfig,             \* handler: what the environment holds as DOMAINS_CONFIG
  hPc,                 \* handler: called, or returned
  hResponse,           \* handler: the Response returned
  crashed,             \* the process was stopped in the middle of a pass
  oldTunnel,           \* the tunnel the stopped pass was moving the domain from
  vData,               \* handleDownload: the decoded path
  vSign,               \* handleDownload: the sign parameter, as characters
  vNow,                \* Date.now() when verify runs, in milliseconds
  vPc,                 \* handleDownload: before verify, after it, or over
  vResult,             \* what verify returned
  vReply,              \* code of the JSON answer handleDownload built itself
  vBackend             \* requests made to ADDRESS/api/fs/link

passVars == <<active, tunnels, dns, ingress, dns0, ingress0, pc, outcome, probe,
              dnsRecord, currentTunnelIndex, loopI, nextTunnelIndex, fetched,
              checked, calls, notes, response, run>>

ruleVars == <<rPrior, rConfig, rCalls>>

fetchVars == <<fMax, fAttempt, fPc, fLog, fDelays, fResult>>

entryVars == <<hMethod, hConfig, hPc, hResponse, crashed, oldTunnel>>

verifyVars == <<vData, vSign, vNow, vPc, vResult, vReply, vBackend>>

vars == <<passVars, ruleVars, fetchVars, entryVars, verifyVars>>

(* ------------------------ pure parts of the code ----------------------- *)

\* `${tunnelId}.cfargotunnel.com`
TunnelCname(t) == [tunnel |-> t, suffix |-> "cfargotunnel.com"]

ForeignCname == [tunnel |-> NullTunnel, suffix |-> "elsewhere.example.net"]

\* tunnels.map(tunnelId => `${tunnelId}.cfargotunnel.com`)
tunnelCnames(d) == [j \in 1..Len(tunnels[d]) |-> TunnelCname(tunnels[d][j])]

\* Array.prototype.findIndex, 0-based, -1 when nothing matches
FindIndex(seq, x) ==
  IF \E j \in 1..Len(seq) : seq[j] = x
  THEN (CHOOSE j \in 1..Len(seq) : seq[j] = x /\ \A m \in 1..(j - 1) : seq[m] # x) - 1
  ELSE -1

\* tunnels[idx]; an index outside the array reads undefined
TunnelAt(d, idx) ==
  IF idx + 1 \in 1..Len(tunnels[d]) THEN tunnels[d][idx + 1] ELSE NullTunnel

\* responses of the reachability GET
ProbeResponses == { [err |-> TRUE, status |-> 0] }
                    \cup { [err |-> FALSE, status |-> s] : s \in {199, 200, 399, 400, 503} }

CheckReachable_below400(r) == ~r.err /\ r.status < 400

\* checkReachable: a status in [200, 400), false from the catch block
CheckReachable(r) == ~r.err /\ r.status >= 200 /\ r.status < 400

\* outcomes of the tunnel status call
HealthResponses == { [err |-> TRUE,  success |-> FALSE, status |-> "none"],
                     [err |-> FALSE, success |-> FALSE, status |-> "healthy"],
                     [err |-> FALSE, success |-> TRUE,  status |-> "degraded"],
                     [err |-> FALSE, success |-> TRUE,  status |-> "healthy"],
                     [err |-> FALSE, success |-> TRUE,  status |-> "missing"] }

\* the try block of checkTunnelHealth: fetchWithRetry or response.json() may
\* throw, and tunnel.status throws when the envelope has no result
HealthTry(r) ==
  IF r.err THEN "throw"
  ELSE IF ~r.success THEN "false"
  ELSE IF r.status = "missing" THEN "throw"
  ELSE IF r.status = "healthy" THEN "true" ELSE "false"

CheckTunnelHealth_anySuccess(r) == ~r.err /\ r.success

\* checkTunnelHealth: the catch block turns every throw into false
CheckTunnelHealth(r) == IF HealthTry(r) = "throw" THEN FALSE ELSE HealthTry(r) = "true"

EarlyReturn_never(isReachable) == FALSE

\* if (isReachable) return
EarlyReturn(isReachable) == isReachable

ScanIndex_fromCurrent(k, i, n) == (k + i - 1 + n) % n

\* const checkIndex = (currentTunnelIndex + i) % tunnels.length
ScanIndex(k, i, n) == (k + i) % n

LoopGoesOn_oneMore(i, n) == i <= n + 1

\* for (let i = 1; i <= tunnels.length; i++)
LoopGoesOn(i, n) == i <= n

NoTunnelSelected_never(next) == next = -2

\* if (nextTunnelIndex === -1)
NoTunnelSelected(next) == next = -1

HasPreviousTunnel_always(k) == TRUE

\* if (currentTunnelIndex !== -1)
HasPreviousTunnel(k) == k # -1

FilterDomain_dropHosted(ing, domain) ==
  SelectSeq(ing, LAMBDA rule : rule.hostname = NoHost)

\* ingress.filter(rule => rule.hostname !== domain)
FilterDomain(ing, domain) == SelectSeq(ing, LAMBDA rule : rule.hostname # domain)

\* ingress.some(rule => !rule.hostname && rule.service === 'http_status:404')
HasFallback(ing) ==
  \E j \in 1..Len(ing) : ing[j].hostname = NoHost /\ ing[j].service = FallbackService

\* if (!hasFallback) ingress.push({ service: 'http_status:404' })
EnsureFallback(ing) == IF HasFallback(ing) THEN ing ELSE Append(ing, FallbackRule)

AddTunnelRuleIngress_noFilter(ing, domain, service) ==
  EnsureFallback(<<Rule(domain, service)>> \o ing)

\* the ingress addTunnelRule writes, given the ingress it read
AddTunnelRuleIngress(ing, domain, service) ==
  EnsureFallback(<<Rule(domain, service)>> \o FilterDomain(ing, domain))

RemoveTunnelRuleIngress_firstOnly(ing, domain) ==
  LET hits == { j \in 1..Len(ing) : ing[j].hostname = domain }
      first == IF hits = {} THEN 0 ELSE CHOOSE j \in hits : \A m \in hits : j <= m
      kept == SelectSeq([j \in 1..Len(ing) |-> [pos |-> j, rule |-> ing[j]]],
                        LAMBDA e : e.pos # first)
  IN  EnsureFallback([j \in 1..Len(kept) |-> kept[j].rule])

RemoveTunnelRuleIngress_alwaysPush(ing, domain) ==
  Append(FilterDomain(ing, domain), FallbackRule)

\* the ingress removeTunnelRule writes, given the ingress it read
RemoveTunnelRuleIngress(ing, domain) == EnsureFallback(FilterDomain(ing, domain))

\* how the sendMessage call ends: no response, or a body with ok true / false
TelegramResults == { [err |-> TRUE,  ok |-> FALSE],
                     [err |-> FALSE, ok |-> TRUE],
                     [err |-> FALSE, ok |-> FALSE] }

\* the try block of sendTelegramNotification: !data.ok is only logged
TelegramTry(r) == IF r.err THEN "throw" ELSE "normal"

TelegramCompletion_noCatch(r) == TelegramTry(r)

TelegramCompletion_throwNotOk(r) == IF ~r.err /\ ~r.ok THEN "throw" ELSE "normal"

\* sendTelegramNotification: the catch block logs and swallows a throw
TelegramCompletion(r) == IF TelegramTry(r) = "throw" THEN "normal" ELSE TelegramTry(r)

\* how a control-plane call ends: fetchWithRetry throws, or the envelope has
\* success false, or success true
ApiResults == {"ok", "rejected", "thrown"}

Resp(from, err, status, success, body) ==
  [from |-> from, err |-> err, status |-> status, success |-> success, body |-> body]

NoResponse == Resp("none", FALSE, 0, FALSE, "")

ApiResp(op, res) == Resp(op, res = "thrown", 0, res = "ok", "")

EnvelopeFails_onlyThrown(res) == res = "thrown"

\* add/removeTunnelRule: if (!data.success) throw, for the read and the write
EnvelopeFails(res) == res # "ok"

DnsLookupFails_onlyEmpty(res, records) == res = "thrown" \/ Len(records) = 0

\* getDnsRecord: if (!data.success || data.result.length === 0) throw
DnsLookupFails(res, records) == res # "ok" \/ Len(records) = 0

SendTelegramNotification_dropped(sent, message) == sent

\* one sendTelegramNotification call; delivery failures are swallowed
SendTelegramNotification(sent, message) == Append(sent, message)


(* --------------------- handleDomainFailover: helpers ------------------- *)

Domain1 == "a.example.com"

\* ingress lists found on a tunnel when a run starts
InitIngress == { <<>>,
                 <<Rule(Domain1, OldService), FallbackRule>>,
                 <<Rule("b.example.com", OldService), FallbackRule>> }

InitContents == { TunnelCname(t) : t \in AllTunnels } \cup { ForeignCname }

\* result array of GET dns_records?type=CNAME&name=domain
InitDnsResults(d) == { <<>> } \cup { <<[id |-> d, content |-> c]>> : c \in InitContents }

Call(op, t, ok) == [op |-> op, tunnel |-> t, ok |-> ok]

\* tunnelCnames[idx]; null when no tunnel was selected
CnameAt(d, idx) ==
  IF idx + 1 \in 1..Len(tunnels[d]) THEN tunnelCnames(d)[idx + 1] ELSE ForeignCname

\* where the task goes once the scan loop is over (lines 156-164)
AfterScan(next) == IF NoTunnelSelected(next) THEN "notifyAborted" ELSE "addRead"

HasRuleFor(ing, d) == \E j \in 1..Len(ing) : ing[j].hostname = d

Terminal == {"Unchanged", "Completed", "Aborted", "Failed"}

(* ------------------------------ Init ----------------------------------- *)

PassStart(doms) ==
  /\ active = doms
  /\ \E n \in 0..MaxTunnels :
       tunnels = [d \in Domains |-> IF d \in doms THEN [j \in 1..n |-> 100 + j] ELSE <<>>]
  /\ dns \in [Domains -> UNION { InitDnsResults(d) : d \in Domains }]
  /\ \A d \in Domains : dns[d] \in (IF d \in doms THEN InitDnsResults(d) ELSE { <<>> })
  /\ ingress \in [AllTunnels -> InitIngress]
  /\ dns0 = dns
  /\ ingress0 = ingress
  /\ pc = [d \in Domains |-> IF d \in doms THEN "probe" ELSE "idle"]
  /\ outcome = [d \in Domains |-> "None"]
  /\ probe = [d \in Domains |-> "none"]
  /\ dnsRecord = [d \in Domains |-> <<>>]
  /\ currentTunnelIndex = [d \in Domains |-> -1]
  /\ loopI = [d \in Domains |-> 0]
  /\ nextTunnelIndex = [d \in Domains |-> -1]
  /\ fetched = [d \in Domains |-> <<>>]
  /\ checked = [d \in Domains |-> <<>>]
  /\ calls = [d \in Domains |-> <<>>]
  /\ notes = [d \in Domains |-> <<>>]
  /\ response = [d \in Domains |-> NoResponse]
  /\ run = "awaiting"

RulesIdle == rPrior = <<>> /\ rConfig = <<>> /\ rCalls = <<>>

NoResult == [kind |-> "pending", err |-> FALSE, status |-> 0, name |-> "none", at |-> 0]

\* no fetchWithRetry call under way
FetchIdle ==
  /\ fMax = 0
  /\ fAttempt = 0
  /\ fPc = "idle"
  /\ fLog = <<>>
  /\ fDelays = <<>>
  /\ fResult = NoResult

\* no domain configured: nothing of the pass ever runs
PassIdle ==
  /\ active = {}
  /\ tunnels = [d \in Domains |-> <<>>]
  /\ dns = [d \in Domains |-> <<>>]
  /\ ingress = [t \in AllTunnels |-> <<>>]
  /\ dns0 = dns
  /\ ingress0 = ingress
  /\ pc = [d \in Domains |-> "idle"]
  /\ outcome = [d \in Domains |-> "None"]
  /\ probe = [d \in Domains |-> "none"]
  /\ dnsRecord = [d \in Domains |-> <<>>]
  /\ currentTunnelIndex = [d \in Domains |-> -1]
  /\ loopI = [d \in Domains |-> 0]
  /\ nextTunnelIndex = [d \in Domains |-> -1]
  /\ fetched = [d \in Domains |-> <<>>]
  /\ checked = [d \in Domains |-> <<>>]
  /\ calls = [d \in Domains |-> <<>>]
  /\ notes = [d \in Domains |-> <<>>]
  /\ response = [d \in Domains |-> NoResponse]
  /\ run = "idle"

NoHttpResponse == [status |-> 0, body |-> "none"]

\* the run was started by the schedule, and nothing stops it
EntryIdle ==
  /\ hMethod = "none"
  /\ hConfig = "valid"
  /\ hPc = "idle"
  /\ hResponse = NoHttpResponse
  /\ crashed = FALSE
  /\ oldTunnel = NullTunnel

\* no download request
VerifyIdle ==
  /\ vData = "none"
  /\ vSign = <<>>
  /\ vNow = 0
  /\ vPc = "idle"
  /\ vResult = "none"
  /\ vReply = 0
  /\ vBackend = 0

\* one domain configured: its pass runs alone
Init == PassStart({Domain1}) /\ RulesIdle /\ FetchIdle /\ EntryIdle /\ VerifyIdle

(* ------------------- handleDomainFailover: the steps ------------------- *)

\* Step 1: await checkReachable, then the early return
Probe(d) ==
  /\ pc[d] = "probe"
  /\ \E r \in ProbeResponses :
       LET isReachable == CheckReachable(r) IN
         /\ response' = [response EXCEPT ![d] = Resp("probe", r.err, r.status, FALSE, "")]
         /\ probe' = [probe EXCEPT ![d] = IF isReachable THEN "true" ELSE "false"]
         /\ IF EarlyReturn(isReachable)
            THEN /\ pc' = [pc EXCEPT ![d] = "done"]
                 /\ outcome' = [outcome EXCEPT ![d] = "Unchanged"]
            ELSE /\ pc' = [pc EXCEPT ![d] = "notifyUnreachable"]
                 /\ UNCHANGED outcome
  /\ UNCHANGED <<active, tunnels, dns, ingress, dns0, ingress0, dnsRecord,
                 currentTunnelIndex, loopI, nextTunnelIndex, fetched, checked,
                 calls, notes, run, ruleVars, fetchVars, entryVars, verifyVars>>

\* await sendTelegramNotification("... is unreachable. Initiating failover.")
NotifyUnreachable(d) ==
  /\ pc[d] = "notifyUnreachable"
  /\ \E r \in TelegramResults :
       /\ response' = [response EXCEPT ![d] = Resp("telegram", r.err, 0, r.ok, "")]
       /\ pc' = [pc EXCEPT ![d] =
                   IF TelegramCompletion(r) = "throw" THEN "catch" ELSE "getDnsRecord"]
  /\ notes' = [notes EXCEPT ![d] = SendTelegramNotification(@, "unreachable")]
  /\ UNCHANGED <<active, tunnels, dns, ingress, dns0, ingress0, outcome, probe,
                 dnsRecord, currentTunnelIndex, loopI, nextTunnelIndex, fetched,
                 checked, calls, run, ruleVars, fetchVars, entryVars, verifyVars>>

\* Step 2: await getDnsRecord, findIndex, and the entry of the scan loop
GetDnsRecord(d) ==
  /\ pc[d] = "getDnsRecord"
  /\ \E res \in ApiResults :
       LET ok == ~DnsLookupFails(res, dns[d]) IN
         /\ response' = [response EXCEPT ![d] = ApiResp("getDnsRecord", res)]
         /\ calls' = [calls EXCEPT ![d] = Append(@, Call("getDnsRecord", NullTunnel, ok))]
         /\ IF ok
            THEN LET k == FindIndex(tunnelCnames(d), dns[d][1].content) IN
                   /\ dnsRecord' = [dnsRecord EXCEPT ![d] = <<dns[d][1]>>]
                   /\ currentTunnelIndex' = [currentTunnelIndex EXCEPT ![d] = k]
                   /\ nextTunnelIndex' = [nextTunnelIndex EXCEPT ![d] = -1]
                   /\ loopI' = [loopI EXCEPT ![d] = 1]
                   /\ pc' = [pc EXCEPT ![d] =
                               IF LoopGoesOn(1, Len(tunnels[d])) THEN "scan"
                               ELSE AfterScan(-1)]
            ELSE /\ pc' = [pc EXCEPT ![d] = "catch"]
                 /\ UNCHANGED <<dnsRecord, currentTunnelIndex, nextTunnelIndex, loopI>>
  /\ UNCHANGED <<active, tunnels, dns, ingress, dns0, ingress0, outcome, probe,
                 fetched, checked, notes, run, ruleVars, fetchVars, entryVars, verifyVars>>

\* one iteration of the scan: await checkTunnelHealth, break or i++
CheckHealth(d) ==
  /\ pc[d] = "scan"
  /\ \E r \in HealthResponses :
       LET n == Len(tunnels[d])
           checkIndex == ScanIndex(currentTunnelIndex[d], loopI[d], n)
           tunnelHealthy == CheckTunnelHealth(r)
       IN
         /\ response' = [response EXCEPT ![d] =
                           Resp("checkTunnelHealth", r.err, 0, r.success, r.status)]
         /\ checked' = [checked EXCEPT ![d] =
                          Append(@, [index |-> checkIndex,
                                     tunnel |-> TunnelAt(d, checkIndex),
                                     healthy |-> tunnelHealthy])]
         /\ IF tunnelHealthy
            THEN /\ nextTunnelIndex' = [nextTunnelIndex EXCEPT ![d] = checkIndex]
                 /\ pc' = [pc EXCEPT ![d] = AfterScan(checkIndex)]
                 /\ UNCHANGED loopI
            ELSE /\ loopI' = [loopI EXCEPT ![d] = @ + 1]
                 /\ pc' = [pc EXCEPT ![d] =
                             IF LoopGoesOn(loopI[d] + 1, n) THEN "scan"
                             ELSE AfterScan(nextTunnelIndex[d])]
                 /\ UNCHANGED nextTunnelIndex
  /\ UNCHANGED <<active, tunnels, dns, ingress, dns0, ingress0, outcome, probe,
                 dnsRecord, currentTunnelIndex, fetched, calls, notes, run,
                 ruleVars, fetchVars, entryVars, verifyVars>>

\* the GET of add/removeTunnelRule; op names the caller, t the tunnel
ReadConfiguration(d, at, op, t, to) ==
  /\ pc[d] = at
  /\ \E res \in ApiResults :
       LET ok == ~EnvelopeFails(res) /\ t \in AllTunnels IN
         /\ response' = [response EXCEPT ![d] = ApiResp(op, res)]
         /\ calls' = [calls EXCEPT ![d] = Append(@, Call(op, t, ok))]
         /\ IF ok
            THEN /\ fetched' = [fetched EXCEPT ![d] = ingress[t]]
                 /\ pc' = [pc EXCEPT ![d] = to]
            ELSE /\ pc' = [pc EXCEPT ![d] = "catch"]
                 /\ UNCHANGED fetched
  /\ UNCHANGED <<active, tunnels, dns, ingress, dns0, ingress0, outcome, probe,
                 dnsRecord, currentTunnelIndex, loopI, nextTunnelIndex, checked,
                 notes, run, ruleVars, fetchVars, entryVars, verifyVars>>

\* the PUT of add/removeTunnelRule, writing the whole list newIngress
WriteConfiguration(d, at, op, t, newIngress, to) ==
  /\ pc[d] = at
  /\ \E res \in ApiResults :
       LET ok == ~EnvelopeFails(res) /\ t \in AllTunnels IN
         /\ response' = [response EXCEPT ![d] = ApiResp(op, res)]
         /\ calls' = [calls EXCEPT ![d] = Append(@, Call(op, t, ok))]
         /\ IF ok
            THEN /\ ingress' = [ingress EXCEPT ![t] = newIngress]
                 /\ pc' = [pc EXCEPT ![d] = to]
            ELSE /\ pc' = [pc EXCEPT ![d] = "catch"]
                 /\ UNCHANGED ingress
  /\ UNCHANGED <<active, tunnels, dns, dns0, ingress0, outcome, probe, dnsRecord,
                 currentTunnelIndex, loopI, nextTunnelIndex, fetched, checked,
                 notes, run, ruleVars, fetchVars, entryVars, verifyVars>>

\* Step 3, first half: addTunnelRule reads the selected tunnel's configuration
AddRuleRead(d) ==
  ReadConfiguration(d, "addRead", "addTunnelRule.get",
                    TunnelAt(d, nextTunnelIndex[d]), "addWrite")

\* Step 3, second half: addTunnelRule writes the edited ingress
AddRuleWrite(d) ==
  WriteConfiguration(d, "addWrite", "addTunnelRule.put",
                     TunnelAt(d, nextTunnelIndex[d]),
                     AddTunnelRuleIngress(fetched[d], d, ServiceUrl(d)),
                     "updateDnsRecord")

\* Step 4: await updateDnsRecord, then the test of step 5
UpdateDnsRecord(d) ==
  /\ pc[d] = "updateDnsRecord"
  /\ \E res \in ApiResults :
       LET ok == res = "ok" IN
       /\ response' = [response EXCEPT ![d] = ApiResp("updateDnsRecord", res)]
       /\ calls' = [calls EXCEPT ![d] = Append(@, Call("updateDnsRecord", NullTunnel, ok))]
       /\ IF ok
          THEN /\ dns' = [x \in Domains |->
                            IF Len(dns[x]) # 0 /\ dns[x][1].id = dnsRecord[d][1].id
                            THEN <<[dns[x][1] EXCEPT
                                      !.content = CnameAt(d, nextTunnelIndex[d])]>>
                            ELSE dns[x]]
               /\ pc' = [pc EXCEPT ![d] =
                           IF HasPreviousTunnel(currentTunnelIndex[d])
                           THEN "removeRead" ELSE "notifyCompleted"]
          ELSE /\ pc' = [pc EXCEPT ![d] = "catch"]
               /\ UNCHANGED dns
  /\ UNCHANGED <<active, tunnels, ingress, dns0, ingress0, outcome, probe,
                 dnsRecord, currentTunnelIndex, loopI, nextTunnelIndex, fetched,
                 checked, notes, run, ruleVars, fetchVars, entryVars, verifyVars>>

\* Step 5, first half: removeTunnelRule reads the previous tunnel's configuration
RemoveRuleRead(d) ==
  ReadConfiguration(d, "removeRead", "removeTunnelRule.get",
                    TunnelAt(d, currentTunnelIndex[d]), "removeWrite")

\* Step 5, second half: removeTunnelRule writes the edited ingress
RemoveRuleWrite(d) ==
  WriteConfiguration(d, "removeWrite", "removeTunnelRule.put",
                     TunnelAt(d, currentTunnelIndex[d]),
                     RemoveTunnelRuleIngress(fetched[d], d),
                     "notifyCompleted")

\* a closing notification and the end of the task; a throw inside the try
\* block goes to the catch block, a throw inside the catch block rejects the
\* task's promise
Finish(d, at, message, result) ==
  /\ pc[d] = at
  /\ \E r \in TelegramResults :
       /\ response' = [response EXCEPT ![d] = Resp("telegram", r.err, 0, r.ok, "")]
       /\ IF TelegramCompletion(r) = "throw"
          THEN IF at = "catch"
               THEN /\ pc' = [pc EXCEPT ![d] = "done"]
                    /\ outcome' = [outcome EXCEPT ![d] = "Rejected"]
               ELSE /\ pc' = [pc EXCEPT ![d] = "catch"]
                    /\ UNCHANGED outcome
          ELSE /\ pc' = [pc EXCEPT ![d] = "done"]
               /\ outcome' = [outcome EXCEPT ![d] = result]
  /\ notes' = [notes EXCEPT ![d] = SendTelegramNotification(@, message)]
  /\ UNCHANGED <<active, tunnels, dns, ingress, dns0, ingress0, probe, dnsRecord,
                 currentTunnelIndex, loopI, nextTunnelIndex, fetched, checked,
                 calls, run, ruleVars, fetchVars, entryVars, verifyVars>>

\* "Failover completed for ..."
NotifyCompleted(d) == Finish(d, "notifyCompleted", "completed", "Completed")

\* "No healthy tunnels found ... Aborting failover."
NotifyAborted(d) == Finish(d, "notifyAborted", "aborted", "Aborted")

\* catch (error): "Failover process failed for ..."
Catch(d) == Finish(d, "catch", "failed", "Failed")

\* every step a domain task can take
DomainStep(d) ==
  \/ Probe(d) \/ NotifyUnreachable(d) \/ GetDnsRecord(d) \/ CheckHealth(d)
  \/ AddRuleRead(d) \/ AddRuleWrite(d) \/ UpdateDnsRecord(d)
  \/ RemoveRuleRead(d) \/ RemoveRuleWrite(d)
  \/ NotifyCompleted(d) \/ NotifyAborted(d) \/ Catch(d)

AllSettled_any(position) == \E d \in active : position[d] = "done"

\* Promise.allSettled: every task's promise is settled
AllSettled(position) == \A d \in active : position[d] = "done"

\* handleFailover resumes after await Promise.allSettled(...), and returns
Settle ==
  /\ run = "awaiting"
  /\ AllSettled(pc)
  /\ run' = "settled"
  /\ UNCHANGED <<active, tunnels, dns, ingress, dns0, ingress0, pc, outcome, probe,
                 dnsRecord, currentTunnelIndex, loopI, nextTunnelIndex, fetched,
                 checked, calls, notes, response, ruleVars, fetchVars, entryVars, verifyVars>>

Next ==
  \/ \E d \in active : Probe(d)
  \/ \E d \in active : NotifyUnreachable(d)
  \/ \E d \in active : GetDnsRecord(d)
  \/ \E d \in active : CheckHealth(d)
  \/ \E d \in active : AddRuleRead(d)
  \/ \E d \in active : AddRuleWrite(d)
  \/ \E d \in active : UpdateDnsRecord(d)
  \/ \E d \in active : RemoveRuleRead(d)
  \/ \E d \in active : RemoveRuleWrite(d)
  \/ \E d \in active : NotifyCompleted(d)
  \/ \E d \in active : NotifyAborted(d)
  \/ \E d \in active : Catch(d)
  \/ Settle

Spec == Init /\ [][Next]_vars

TypeOK ==
  /\ \A d \in Domains : outcome[d] \in Terminal \cup {"None"}
  /\ \A d \in Domains : (pc[d] = "done") = (outcome[d] \in Terminal)


(* ------------------ handleFailover over two domains ------------------- *)

Domain2 == "b.example.com"

\* both domains list the same two tunnels, each starting on its own one
SharedTunnels(d) == IF d = Domain1 THEN <<101, 102>> ELSE <<102, 101>>

\* Promise.allSettled over domainsConfig.map(handleDomainFailover): both
\* tasks are started together; each domain's CNAME record is missing or
\* points at its first tunnel, which holds the domain's rule
ConcStart ==
  /\ active = Domains
  /\ tunnels = [d \in Domains |-> SharedTunnels(d)]
  /\ dns \in [Domains -> UNION { InitDnsResults(d) : d \in Domains }]
  /\ \A d \in Domains :
       dns[d] \in { <<>>, <<[id |-> d, content |-> TunnelCname(SharedTunnels(d)[1])]>> }
  /\ ingress = [t \in AllTunnels |->
                  IF t = 101 THEN <<Rule(Domain1, OldService), FallbackRule>>
                  ELSE IF t = 102 THEN <<Rule(Domain2, OldService), FallbackRule>>
                  ELSE <<>>]
  /\ dns0 = dns
  /\ ingress0 = ingress
  /\ pc = [d \in Domains |-> "probe"]
  /\ outcome = [d \in Domains |-> "None"]
  /\ probe = [d \in Domains |-> "none"]
  /\ dnsRecord = [d \in Domains |-> <<>>]
  /\ currentTunnelIndex = [d \in Domains |-> -1]
  /\ loopI = [d \in Domains |-> 0]
  /\ nextTunnelIndex = [d \in Domains |-> -1]
  /\ fetched = [d \in Domains |-> <<>>]
  /\ checked = [d \in Domains |-> <<>>]
  /\ calls = [d \in Domains |-> <<>>]
  /\ notes = [d \in Domains |-> <<>>]
  /\ response = [d \in Domains |-> NoResponse]
  /\ run = "awaiting"

InitMulti == ConcStart /\ RulesIdle /\ FetchIdle /\ EntryIdle /\ VerifyIdle

SpecMulti == InitMulti /\ [][Next]_vars

\* every pending fetch of a task comes back, and the event loop runs every
\* continuation that is ready
Fairness == (\A d \in Domains : WF_vars(DomainStep(d))) /\ WF_vars(Settle)

SpecMultiFair == SpecMulti /\ Fairness

(* ------------- addTunnelRule / removeTunnelRule on one tunnel ----------- *)

\* how a call ends: both envelopes succeed, the GET fails, or the PUT fails
\* both domains are served by tunnel 101, which holds a rule for each, and
\* both list tunnel 102 as the one to try next
SharedStart ==
  /\ active = Domains
  /\ tunnels = [d \in Domains |-> SharedTunnels(d)]
  /\ dns = [d \in Domains |-> <<[id |-> d, content |-> TunnelCname(101)]>>]
  /\ ingress = [t \in AllTunnels |->
                  IF t = 101
                  THEN <<Rule(Domain1, OldService), Rule(Domain2, OldService), FallbackRule>>
                  ELSE IF t = 102 THEN <<FallbackRule>>
                  ELSE <<>>]
  /\ dns0 = dns
  /\ ingress0 = ingress
  /\ pc = [d \in Domains |-> "probe"]
  /\ outcome = [d \in Domains |-> "None"]
  /\ probe = [d \in Domains |-> "none"]
  /\ dnsRecord = [d \in Domains |-> <<>>]
  /\ currentTunnelIndex = [d \in Domains |-> -1]
  /\ loopI = [d \in Domains |-> 0]
  /\ nextTunnelIndex = [d \in Domains |-> -1]
  /\ fetched = [d \in Domains |-> <<>>]
  /\ checked = [d \in Domains |-> <<>>]
  /\ calls = [d \in Domains |-> <<>>]
  /\ notes = [d \in Domains |-> <<>>]
  /\ response = [d \in Domains |-> NoResponse]
  /\ run = "awaiting"

InitShared == SharedStart /\ RulesIdle /\ FetchIdle /\ EntryIdle /\ VerifyIdle

SpecShared == InitShared /\ [][Next]_vars

(* ------------------------- the HTTP trigger --------------------------- *)

Methods == {"GET", "POST", "PUT"}

\* DOMAINS_CONFIG as the environment holds it: text that is not JSON, the
\* array '[]', an array of one domain; or Deno.env.get itself throws
Configs == {"invalid", "empty", "one", "unreadable"}

Confirmation == [status |-> 200, body |-> "Failover process initiated"]

UsePost == [status |-> 200, body |-> "Use POST to trigger failover check"]

\* new Response(`Error: ${error.message}`, { status: 500 })
ErrorResponse == [status |-> 500, body |-> "Error: message"]

StartsPass_any(method) == TRUE

\* if (request.method === 'POST')
StartsPass(method) == method = "POST"

\* JSON.parse(env.DOMAINS_CONFIG)
ConfiguredDomains(config) == IF config = "one" THEN {Domain1} ELSE {}

\* a request arrives; the control plane is in any state a run may find, and
\* no task exists yet
InitHandler ==
  /\ hMethod \in Methods
  /\ hConfig \in Configs
  /\ hPc = "request"
  /\ hResponse = NoHttpResponse
  /\ crashed = FALSE
  /\ oldTunnel = NullTunnel
  /\ active = {}
  /\ \E n \in 0..MaxTunnels :
       tunnels = [d \in Domains |->
                    IF d \in ConfiguredDomains(hConfig)
                    THEN [j \in 1..n |-> 100 + j] ELSE <<>>]
  /\ dns \in [Domains -> UNION { InitDnsResults(d) : d \in Domains }]
  /\ \A d \in Domains : dns[d] \in (IF d = Domain1 THEN InitDnsResults(d) ELSE { <<>> })
  /\ ingress \in [AllTunnels -> InitIngress]
  /\ dns0 = dns
  /\ ingress0 = ingress
  /\ pc = [d \in Domains |-> "idle"]
  /\ outcome = [d \in Domains |-> "None"]
  /\ probe = [d \in Domains |-> "none"]
  /\ dnsRecord = [d \in Domains |-> <<>>]
  /\ currentTunnelIndex = [d \in Domains |-> -1]
  /\ loopI = [d \in Domains |-> 0]
  /\ nextTunnelIndex = [d \in Domains |-> -1]
  /\ fetched = [d \in Domains |-> <<>>]
  /\ checked = [d \in Domains |-> <<>>]
  /\ calls = [d \in Domains |-> <<>>]
  /\ notes = [d \in Domains |-> <<>>]
  /\ response = [d \in Domains |-> NoResponse]
  /\ run = "idle"
  /\ RulesIdle
  /\ FetchIdle
  /\ VerifyIdle

\* handler, POST branch: the environment is read inside the try; then
\* handleFailover(env) runs up to its first await: JSON.parse throws inside
\* the async function, which rejects its promise, or every task is started
\* and runs up to its probe; .catch is attached and the Response returned
HandlerPost ==
  /\ hPc = "request"
  /\ StartsPass(hMethod)
  /\ hPc' = "responded"
  /\ IF hConfig = "unreadable"
     THEN /\ hResponse' = ErrorResponse
          /\ UNCHANGED <<active, pc, run>>
     ELSE /\ hResponse' = Confirmation
          /\ IF hConfig = "invalid"
             THEN /\ run' = "rejected"
                  /\ UNCHANGED <<active, pc>>
             ELSE /\ active' = ConfiguredDomains(hConfig)
                  /\ pc' = [d \in Domains |->
                              IF d \in ConfiguredDomains(hConfig) THEN "probe" ELSE "idle"]
                  /\ run' = "awaiting"
  /\ UNCHANGED <<tunnels, dns, ingress, dns0, ingress0, outcome, probe, dnsRecord,
                 currentTunnelIndex, loopI, nextTunnelIndex, fetched, checked,
                 calls, notes, response, ruleVars, fetchVars, hMethod, hConfig,
                 crashed, oldTunnel, verifyVars>>

\* handler, any other method
HandlerOther ==
  /\ hPc = "request"
  /\ ~StartsPass(hMethod)
  /\ hPc' = "responded"
  /\ hResponse' = UsePost
  /\ UNCHANGED <<passVars, ruleVars, fetchVars, hMethod, hConfig, crashed, oldTunnel, verifyVars>>

\* the callback of handleFailover(env).catch(...): the rejection is logged
CatchRejection ==
  /\ run = "rejected"
  /\ run' = "logged"
  /\ UNCHANGED <<active, tunnels, dns, ingress, dns0, ingress0, pc, outcome, probe,
                 dnsRecord, currentTunnelIndex, loopI, nextTunnelIndex, fetched,
                 checked, calls, notes, response, ruleVars, fetchVars, entryVars, verifyVars>>

NextHandler == HandlerPost \/ HandlerOther \/ CatchRejection \/ Next

SpecHandler == InitHandler /\ [][NextHandler]_vars

(* ------------------- interruption and later runs ----------------------- *)

\* the process stops while the task has added the rule (line 164) and has
\* not yet asked for the removal of the old one (line 174)
Interrupt(d) ==
  /\ ~crashed
  /\ run = "awaiting"
  /\ pc[d] \in {"updateDnsRecord", "removeRead"}
  /\ currentTunnelIndex[d] # -1
  /\ crashed' = TRUE
  /\ oldTunnel' = TunnelAt(d, currentTunnelIndex[d])
  /\ pc' = [pc EXCEPT ![d] = "stopped"]
  /\ run' = "stopped"
  /\ UNCHANGED <<active, tunnels, dns, ingress, dns0, ingress0, outcome, probe,
                 dnsRecord, currentTunnelIndex, loopI, nextTunnelIndex, fetched,
                 checked, calls, notes, response, ruleVars, fetchVars,
                 hMethod, hConfig, hPc, hResponse, verifyVars>>

\* the schedule calls scheduledHandler again: a new pass over the same
\* configuration, on the control plane as the earlier runs left it
Rerun ==
  /\ run \in {"stopped", "settled"}
  /\ pc' = [d \in Domains |-> IF d \in active THEN "probe" ELSE "idle"]
  /\ outcome' = [d \in Domains |-> "None"]
  /\ probe' = [d \in Domains |-> "none"]
  /\ dnsRecord' = [d \in Domains |-> <<>>]
  /\ currentTunnelIndex' = [d \in Domains |-> -1]
  /\ loopI' = [d \in Domains |-> 0]
  /\ nextTunnelIndex' = [d \in Domains |-> -1]
  /\ fetched' = [d \in Domains |-> <<>>]
  /\ checked' = [d \in Domains |-> <<>>]
  /\ calls' = [d \in Domains |-> <<>>]
  /\ notes' = [d \in Domains |-> <<>>]
  /\ response' = [d \in Domains |-> NoResponse]
  /\ run' = "awaiting"
  /\ UNCHANGED <<active, tunnels, dns, ingress, dns0, ingress0, ruleVars,
                 fetchVars, entryVars, verifyVars>>

NextRerun == Next \/ (\E d \in active : Interrupt(d)) \/ Rerun

\* the first run finds the domain served by the first of its two tunnels:
\* the record points at it and it holds the domain's rule, alone
InitRerun ==
  /\ Init
  /\ tunnels[Domain1] = <<101, 102>>
  /\ dns[Domain1] = <<[id |-> Domain1, content |-> TunnelCname(101)]>>
  /\ ingress = [t \in AllTunnels |->
                  IF t = 101 THEN <<Rule(Domain1, OldService), FallbackRule>> ELSE <<>>]

SpecRerun == InitRerun /\ [][NextRerun]_vars

\* every pending call comes back, ready continuations run, and the schedule
\* keeps firing; nothing obliges the process to be stopped
SpecRerunFair == SpecRerun /\ Fairness /\ WF_vars(Rerun)

(* ------------- signed downloads: verify and handleDownload ------------- *)

\* characters a sign parameter is made of: two signature characters,
\* the separator, three digits, the minus
SignChars == {"A", "B", ":", "0", "1", "2", "-"}

\* decoded paths asked for
Paths == {"/p", "/q"}

\* values of Date.now() in milliseconds: between two seconds, and on one
NowMs == {1500, 2000}

DigitChars == <<"0", "1", "2", "3", "4", "5", "6", "7", "8", "9">>

Digits == { DigitChars[j] : j \in 1..10 }

DigitValue(c) == (CHOOSE j \in 1..10 : DigitChars[j] = c) - 1

\* _sign.split(":") and signSlice[signSlice.length - 1]
LastField(sign) ==
  LET colons == { j \in 1..Len(sign) : sign[j] = ":" }
      last == IF colons = {} THEN 0 ELSE CHOOSE j \in colons : \A m \in colons : m <= j
  IN  SubSeq(sign, last + 1, Len(sign))

RECURSIVE SkipSpace(_)
SkipSpace(f) == IF f # <<>> /\ f[1] = " " THEN SkipSpace(Tail(f)) ELSE f

RECURSIVE DigitsValue(_, _)
\* the number the leading digits of f stand for, after acc
DigitsValue(f, acc) ==
  IF f # <<>> /\ f[1] \in Digits
  THEN DigitsValue(Tail(f), 10 * acc + DigitValue(f[1]))
  ELSE acc

\* parseInt: leading white space, an optional sign, then the digits up to
\* the first other character; NaN when there is no digit
ParseInt(field) ==
  LET f == SkipSpace(field)
      signed == f # <<>> /\ f[1] \in {"-", "+"}
      body == IF signed THEN Tail(f) ELSE f
  IN  IF body = <<>> \/ body[1] \notin Digits
      THEN [nan |-> TRUE, val |-> 0]
      ELSE [nan |-> FALSE,
            val |-> IF signed /\ f[1] = "-"
                    THEN 0 - DigitsValue(body, 0) ELSE DigitsValue(body, 0)]

RECURSIVE Decimal(_)
Decimal(n) ==
  IF n < 10 THEN <<DigitChars[n + 1]>>
  ELSE Append(Decimal(n \div 10), DigitChars[(n % 10) + 1])

\* `${expire}`
NumberToString(n) == IF n < 0 THEN <<"-">> \o Decimal(0 - n) ELSE Decimal(n)

PathCode(data) == IF data = "/p" THEN 0 ELSE 1

\* the base64url text of HMAC-SHA256(TOKEN, `${data}:${expire}`), cut down
\* to one character that depends on both the path and the expiry
Mac(data, expire) == IF (PathCode(data) + expire) % 2 = 0 THEN "A" ELSE "B"

\* hmacSha256Sign: the signature text, ':' and the expiry
HmacSha256Sign(data, expire) == <<Mac(data, expire), ":">> \o NumberToString(expire)

Expired_noZeroGuard(expire, nowMs) == expire * 1000 < nowMs

\* expire < Date.now() / 1e3 && expire > 0
Expired(expire, nowMs) == expire * 1000 < nowMs /\ expire > 0

\* verify(data, _sign), run when Date.now() is nowMs
Verify(data, sign, nowMs) ==
  LET field == LastField(sign)
      expire == ParseInt(field)
  IN  IF field = <<>> THEN "expire missing"
      ELSE IF expire.nan THEN "expire invalid"
      ELSE IF Expired(expire.val, nowMs) THEN "expire expired"
      ELSE IF sign # HmacSha256Sign(data, expire.val) THEN "sign mismatch"
      ELSE ""

\* a download request arrives with any path and any sign parameter
InitVerify ==
  /\ PassIdle
  /\ RulesIdle
  /\ FetchIdle
  /\ EntryIdle
  /\ vData \in Paths
  /\ vSign \in SeqsUpTo(SignChars, MaxSignLen)
  /\ vNow \in NowMs
  /\ vPc = "verify"
  /\ vResult = "none"
  /\ vReply = 0
  /\ vBackend = 0

\* const verifyResult = await verify(path, sign)
VerifyStep ==
  /\ vPc = "verify"
  /\ vResult' = Verify(vData, vSign, vNow)
  /\ vPc' = "verified"
  /\ UNCHANGED <<vData, vSign, vNow, vReply, vBackend, passVars, ruleVars,
                 fetchVars, entryVars>>

\* if (verifyResult !== "") return the JSON answer { code: 401, message }
Reply401 ==
  /\ vPc = "verified"
  /\ vResult # ""
  /\ vReply' = 401
  /\ vPc' = "done"
  /\ UNCHANGED <<vData, vSign, vNow, vResult, vBackend, passVars, ruleVars,
                 fetchVars, entryVars>>

\* otherwise fetch(`${ADDRESS}/api/fs/link`, ...)
AskBackend ==
  /\ vPc = "verified"
  /\ vResult = ""
  /\ vBackend' = vBackend + 1
  /\ vPc' = "done"
  /\ UNCHANGED <<vData, vSign, vNow, vResult, vReply, passVars, ruleVars,
                 fetchVars, entryVars>>

NextVerify == VerifyStep \/ Reply401 \/ AskBackend

SpecVerify == InitVerify /\ [][NextVerify]_vars

(* ----------------------------- rule edits ------------------------------ *)

EditResults == {"ok", "readFailed", "writeFailed"}

Edit(op, d, res, read, config) ==
  [op |-> op, domain |-> d, res |-> res, read |-> read, config |-> config]

InitRules ==
  /\ PassIdle
  /\ FetchIdle
  /\ EntryIdle /\ VerifyIdle
  /\ rPrior \in SeqsUpTo(PriorRules, MaxIngressLen)
  /\ rConfig = rPrior
  /\ rCalls = <<>>

\* a whole addTunnelRule(tunnel, d, serviceUrl) call
AddTunnelRule ==
  /\ Len(rCalls) < MaxCalls
  /\ \E d \in Domains, res \in EditResults :
       /\ rConfig' = IF res = "ok"
                     THEN AddTunnelRuleIngress(rConfig, d, ServiceUrl(d))
                     ELSE rConfig
       /\ rCalls' = Append(rCalls, Edit("add", d, res, rConfig, rConfig'))
  /\ UNCHANGED <<rPrior, passVars, fetchVars, entryVars, verifyVars>>

\* a whole removeTunnelRule(tunnel, d) call
RemoveTunnelRule ==
  /\ Len(rCalls) < MaxCalls
  /\ \E d \in Domains, res \in EditResults :
       /\ rConfig' = IF res = "ok"
                     THEN RemoveTunnelRuleIngress(rConfig, d)
                     ELSE rConfig
       /\ rCalls' = Append(rCalls, Edit("remove", d, res, rConfig, rConfig'))
  /\ UNCHANGED <<rPrior, passVars, fetchVars, entryVars, verifyVars>>

NextRules == AddTunnelRule \/ RemoveTunnelRule

SpecRules == InitRules /\ [][NextRules]_vars


(* ------------------------- properties of a pass ------------------------ *)

\* getDnsRecord returned a record and the scan loop has been left
ScanOver(d) ==
  /\ Len(calls[d]) >= 1
  /\ calls[d][1].ok
  /\ pc[d] # "scan"

NoneHealthy(d) == \A j \in 1..Len(checked[d]) : ~checked[d][j].healthy

MutatingOps == {"addTunnelRule.get", "addTunnelRule.put", "updateDnsRecord",
                "removeTunnelRule.get", "removeTunnelRule.put"}

\* C1: a domain whose reachability probe returned true gets no DNS read, no
\* health check, no configuration read or write, no DNS update and no
\* notification; its pass is over with outcome Unchanged and the control
\* plane is as it was when the run started.
C1_ReachableUntouched ==
  \A d \in active :
    probe[d] = "true" =>
      /\ pc[d] = "done"
      /\ outcome[d] = "Unchanged"
      /\ calls[d] = <<>>
      /\ checked[d] = <<>>
      /\ notes[d] = <<>>
      /\ dns = dns0
      /\ ingress = ingress0

C1_Witness ==
  \E d \in active :
    /\ probe[d] = "true"
    /\ outcome[d] = "Unchanged"
    /\ Len(tunnels[d]) >= 1
    /\ Len(dns[d]) = 1

\* C2: with n tunnels and currentTunnelIndex = k, the j-th health check is
\* made on tunnel (k+j)%n; every check before the last one made reported
\* unhealthy, no index is checked twice, at most n checks are made, and the
\* scan is left only after a healthy report or after all n checks.
C2_ScanOrder ==
  \A d \in active :
    LET n == Len(tunnels[d])
        k == currentTunnelIndex[d]
        c == checked[d]
    IN
      /\ k \in -1..(n - 1)
      /\ Len(c) <= n
      /\ \A j \in 1..Len(c) :
           /\ c[j].index = (k + j) % n
           /\ c[j].tunnel = tunnels[d][((k + j) % n) + 1]
      /\ \A j \in 1..(Len(c) - 1) : ~c[j].healthy
      /\ \A j, m \in 1..Len(c) : j # m => c[j].index # c[m].index
      /\ ScanOver(d) => (Len(c) = n \/ (Len(c) >= 1 /\ c[Len(c)].healthy))

C2_Witness ==
  \E d \in active :
    /\ currentTunnelIndex[d] >= 1
    /\ Len(checked[d]) = Len(tunnels[d])
    /\ Len(checked[d]) >= 3
    /\ checked[d][Len(checked[d])].healthy
    /\ checked[d][Len(checked[d])].index = currentTunnelIndex[d]
    /\ ScanOver(d)

\* C3: when the scan is over and no tunnel reported healthy (also with an
\* empty tunnel list), no addTunnelRule, updateDnsRecord or removeTunnelRule
\* call was made, DNS and every tunnel configuration are as at the start, and
\* the pass is on its way to (or has reached) Aborted.
C3_NoHealthyNoMutation ==
  \A d \in active :
    (ScanOver(d) /\ NoneHealthy(d)) =>
      /\ \A j \in 1..Len(calls[d]) : calls[d][j].op \notin MutatingOps
      /\ dns = dns0
      /\ ingress = ingress0
      /\ pc[d] \in {"notifyAborted", "done"}
      /\ pc[d] = "done" => outcome[d] = "Aborted"

C3_Witness ==
  \E d \in active :
    /\ outcome[d] = "Aborted"
    /\ Len(checked[d]) >= 2
    /\ NoneHealthy(d)

StepOrder == <<"getDnsRecord", "addTunnelRule.get", "addTunnelRule.put",
               "updateDnsRecord", "removeTunnelRule.get", "removeTunnelRule.put">>

\* C4: the calls of a pass are a prefix of getDnsRecord, addTunnelRule (read,
\* write), updateDnsRecord, removeTunnelRule (read, write); a call is made
\* only if every earlier one succeeded; addTunnelRule is called only on the
\* tunnel whose health check reported healthy; removeTunnelRule is called
\* only if currentTunnelIndex # -1, and on tunnels[currentTunnelIndex].
C4_MutationOrder ==
  \A d \in active :
    LET cs == calls[d]
        c  == checked[d]
    IN
      /\ Len(cs) <= Len(StepOrder)
      /\ \A j \in 1..Len(cs) : cs[j].op = StepOrder[j]
      /\ \A j \in 1..(Len(cs) - 1) : cs[j].ok
      /\ \A j \in 1..Len(cs) :
           cs[j].op \in {"addTunnelRule.get", "addTunnelRule.put"} =>
             /\ Len(c) >= 1
             /\ c[Len(c)].healthy
             /\ cs[j].tunnel = c[Len(c)].tunnel
             /\ cs[j].tunnel \in AllTunnels
      /\ \A j \in 1..Len(cs) :
           cs[j].op \in {"removeTunnelRule.get", "removeTunnelRule.put"} =>
             /\ currentTunnelIndex[d] # -1
             /\ cs[j].tunnel = tunnels[d][currentTunnelIndex[d] + 1]

C4_Witness ==
  \E d \in active :
    /\ Len(calls[d]) = 6
    /\ calls[d][6].ok
    /\ calls[d][2].tunnel # calls[d][5].tunnel
    /\ outcome[d] = "Completed"

\* the DNS record of d points at a tunnel whose ingress has a rule for d
RoutedIn(d, records, config) ==
  /\ Len(records[d]) # 0
  /\ \E t \in AllTunnels :
       /\ records[d][1].content = TunnelCname(t)
       /\ HasRuleFor(config[t], d)

\* C5: if at the start of the pass the tunnel the DNS record points at holds
\* a rule for the domain, then so does the tunnel the DNS record points at
\* in every state of the pass.
C5_AlwaysRouted ==
  \A d \in active : RoutedIn(d, dns0, ingress0) => RoutedIn(d, dns, ingress)

\* C6: a pass that ended Completed with selected tunnel s and previous index
\* k left the DNS record at s's CNAME, a rule {domain, serviceUrl} in s's
\* ingress and, if k # -1, no rule for the domain in tunnels[k]'s ingress.
C6_CompletedEndState ==
  \A d \in active :
    outcome[d] = "Completed" =>
      LET s == TunnelAt(d, nextTunnelIndex[d])
          k == currentTunnelIndex[d]
      IN
        /\ dns[d][1].content = TunnelCname(s)
        /\ \E j \in 1..Len(ingress[s]) :
             /\ ingress[s][j].hostname = d
             /\ ingress[s][j].service = ServiceUrl(d)
        /\ k # -1 => ~HasRuleFor(ingress[TunnelAt(d, k)], d)

\* C7 as stated: a pass that ended Completed, Aborted or Failed made exactly
\* one sendTelegramNotification call, one that ended Unchanged made none.
C7_OneNotification ==
  \A d \in active :
    /\ outcome[d] \in {"Completed", "Aborted", "Failed"} => Len(notes[d]) = 1
    /\ outcome[d] = "Unchanged" => Len(notes[d]) = 0

OutcomeMessage(o) ==
  IF o = "Completed" THEN "completed" ELSE IF o = "Aborted" THEN "aborted" ELSE "failed"

\* C7 amended: a pass that ended Completed, Aborted or Failed made exactly
\* two sendTelegramNotification calls, the "unreachable, initiating failover"
\* message and then one message describing the outcome; a pass that ended
\* Unchanged made none.
C7_TwoNotifications ==
  \A d \in active :
    /\ outcome[d] \in {"Completed", "Aborted", "Failed"} =>
         notes[d] = <<"unreachable", OutcomeMessage(outcome[d])>>
    /\ outcome[d] = "Unchanged" => notes[d] = <<>>

C7_Witness ==
  \E d \in active :
    /\ outcome[d] = "Failed"
    /\ Len(notes[d]) = 2
    /\ Len(calls[d]) >= 3


(* ----------------------- properties of rule edits ---------------------- *)

\* the positions of ing holding a rule with hostname h
Positions(ing, h) == { j \in 1..Len(ing) : ing[j].hostname = h }

\* two consecutive successful calls of the same operation for the same domain
Repeated(op, j) ==
  /\ j + 1 <= Len(rCalls)
  /\ rCalls[j].op = op /\ rCalls[j + 1].op = op
  /\ rCalls[j].res = "ok" /\ rCalls[j + 1].res = "ok"
  /\ rCalls[j].domain = rCalls[j + 1].domain

\* C8: the ingress written by a successful addTunnelRule or removeTunnelRule,
\* whatever list it read, has exactly one rule without a hostname, and that
\* rule is its last element.
C8_OneFallbackLast ==
  \A j \in 1..Len(rCalls) :
    rCalls[j].res = "ok" =>
      Positions(rCalls[j].config, NoHost) = { Len(rCalls[j].config) }

\* C9: the ingress written by a successful addTunnelRule(tunnel, domain,
\* serviceUrl), whatever list it read, has exactly one rule for the domain,
\* at the first position and with service serviceUrl; a second call with the
\* same arguments writes the same ingress again.
C9_AddRuleFirstAndIdempotent ==
  \A j \in 1..Len(rCalls) :
    (rCalls[j].op = "add" /\ rCalls[j].res = "ok") =>
      /\ Positions(rCalls[j].config, rCalls[j].domain) = {1}
      /\ rCalls[j].config[1].service = ServiceUrl(rCalls[j].domain)
      /\ Repeated("add", j) => rCalls[j + 1].config = rCalls[j].config

C9_Witness ==
  \E j \in 1..Len(rCalls) :
    /\ Repeated("add", j)
    /\ Cardinality(Positions(rCalls[j].read, rCalls[j].domain)) >= 2
    /\ rCalls[j].read[1].hostname # rCalls[j].domain
    /\ rCalls[j + 1].read = rCalls[j].config

\* C10: the ingress written by a successful removeTunnelRule(tunnel, domain),
\* whatever list it read, has no rule for the domain, and a second call with
\* the same arguments writes the same ingress again.
C10_RemoveRuleIdempotent ==
  \A j \in 1..Len(rCalls) :
    (rCalls[j].op = "remove" /\ rCalls[j].res = "ok") =>
      /\ Positions(rCalls[j].config, rCalls[j].domain) = {}
      /\ Repeated("remove", j) => rCalls[j + 1].config = rCalls[j].config

C10_Witness ==
  \E j \in 1..Len(rCalls) :
    /\ Repeated("remove", j)
    /\ Positions(rCalls[j].read, rCalls[j].domain) # {}
    /\ ~HasFallback(rCalls[j].read)
    /\ rCalls[j + 1].read = rCalls[j].config


\* C11 as stated: the ingress written by a successful addTunnelRule or
\* removeTunnelRule has no two rules with the same hostname, for every
\* hostname.
C11_NoDuplicateHostnames ==
  \A j \in 1..Len(rCalls) :
    rCalls[j].res = "ok" =>
      \A h \in Domains : Cardinality(Positions(rCalls[j].config, h)) <= 1

\* C11 amended: the ingress written by a successful addTunnelRule or
\* removeTunnelRule has at most one rule for the domain passed to the call,
\* and for every other hostname exactly as many rules as the list read had;
\* so a list read without duplicate hostnames is written without any.
C11_NoDuplicateOfDomain ==
  \A j \in 1..Len(rCalls) :
    rCalls[j].res = "ok" =>
      \A h \in Domains :
        IF h = rCalls[j].domain
        THEN Cardinality(Positions(rCalls[j].config, h)) <= 1
        ELSE Cardinality(Positions(rCalls[j].config, h))
               = Cardinality(Positions(rCalls[j].read, h))

C11_Witness ==
  \E j \in 1..Len(rCalls) :
    /\ rCalls[j].res = "ok"
    /\ rCalls[j].op = "remove"
    /\ Cardinality(Positions(rCalls[j].read, rCalls[j].domain)) >= 2
    /\ \E h \in Domains : h # rCalls[j].domain /\ Positions(rCalls[j].read, h) # {}


(* ---------------------------- fetchWithRetry --------------------------- *)

RECURSIVE Pow2(_)
Pow2(n) == IF n <= 0 THEN 1 ELSE 2 * Pow2(n - 1)

\* what one fetch(url, options) can do on the given attempt: reject with a
\* transport error, or resolve with a response
FetchOutcomes(attempt) ==
  { [err |-> TRUE, status |-> 0, name |-> e, at |-> attempt] :
      e \in {"timeout", "connection reset"} }
    \cup { [err |-> FALSE, status |-> st, name |-> "response", at |-> attempt] :
             st \in {200, 404, 429, 500, 503} }

ShouldRetry_serverErrors(status, attempt, maxRetries) ==
  (status = 429 \/ status >= 500) /\ attempt < maxRetries

\* if (response.status === 429 && attempt < maxRetries)
ShouldRetry(status, attempt, maxRetries) == status = 429 /\ attempt < maxRetries

Delay_fromZero(attempt) == Pow2(attempt - 1) * 1000

\* const delay = Math.pow(2, attempt) * 1000
Delay(attempt) == Pow2(attempt) * 1000

LastAttempt_early(attempt, maxRetries) == attempt >= maxRetries - 1

\* if (attempt === maxRetries) throw error
LastAttempt(attempt, maxRetries) == attempt = maxRetries

Returned(o) == [kind |-> "returned", err |-> o.err, status |-> o.status,
                name |-> o.name, at |-> o.at]

Thrown(o) == [kind |-> "thrown", err |-> o.err, status |-> o.status,
              name |-> o.name, at |-> o.at]

\* throw new Error('Failed to fetch after retries')
AfterRetriesError == [err |-> TRUE, status |-> 0, name |-> "Failed to fetch after retries",
                      at |-> 0]

InitFetch ==
  /\ PassIdle
  /\ RulesIdle
  /\ EntryIdle /\ VerifyIdle
  /\ fMax \in 0..MaxRetriesLimit
  /\ fAttempt = 1
  /\ fPc = "fetch"
  /\ fLog = <<>>
  /\ fDelays = <<>>
  /\ fResult = NoResult

\* one iteration of the loop up to its await fetch: return, throw, go to the
\* timer, or swallow the error and go round again
FetchAttempt ==
  /\ fPc = "fetch"
  /\ fAttempt <= fMax
  /\ \E o \in FetchOutcomes(fAttempt) :
       /\ fLog' = Append(fLog, o)
       /\ IF o.err
          THEN IF LastAttempt(fAttempt, fMax)
               THEN /\ fResult' = Thrown(o)
                    /\ fPc' = "over"
                    /\ UNCHANGED fAttempt
               ELSE /\ fAttempt' = fAttempt + 1
                    /\ UNCHANGED <<fResult, fPc>>
          ELSE IF ShouldRetry(o.status, fAttempt, fMax)
               THEN /\ fPc' = "timer"
                    /\ UNCHANGED <<fResult, fAttempt>>
               ELSE /\ fResult' = Returned(o)
                    /\ fPc' = "over"
                    /\ UNCHANGED fAttempt
  /\ UNCHANGED <<fMax, fDelays, passVars, ruleVars, entryVars, verifyVars>>

\* await new Promise(resolve => setTimeout(resolve, delay)); continue
Backoff ==
  /\ fPc = "timer"
  /\ fDelays' = Append(fDelays, Delay(fAttempt))
  /\ fAttempt' = fAttempt + 1
  /\ fPc' = "fetch"
  /\ UNCHANGED <<fMax, fLog, fResult, passVars, ruleVars, entryVars, verifyVars>>

\* the loop ended without a return or a throw
ThrowAfterLoop ==
  /\ fPc = "fetch"
  /\ fAttempt > fMax
  /\ fResult' = Thrown(AfterRetriesError)
  /\ fPc' = "over"
  /\ UNCHANGED <<fMax, fAttempt, fLog, fDelays, passVars, ruleVars, entryVars, verifyVars>>

NextFetch == FetchAttempt \/ Backoff \/ ThrowAfterLoop

SpecFetch == InitFetch /\ [][NextFetch]_vars

(* ----------------------- properties of fetchWithRetry ------------------ *)

Is429(o) == ~o.err /\ o.status = 429

\* C12: when every request but the last got status 429, the last one got a
\* response with another status and no more than maxRetries requests were
\* made, that response is the result, no request follows it, one delay was
\* waited before each retry, and the delay after attempt i is 2^i * 1000 ms
\* (2000 after attempt 1, 4000 after attempt 2).
C12_Backoff ==
  LET n == Len(fLog) IN
    (/\ n >= 1
     /\ n <= fMax
     /\ \A i \in 1..(n - 1) : Is429(fLog[i])
     /\ ~fLog[n].err
     /\ fLog[n].status # 429) =>
      /\ fResult = Returned(fLog[n])
      /\ fPc = "over"
      /\ Len(fDelays) = n - 1
      /\ \A i \in 1..Len(fDelays) : fDelays[i] = (2 ^ i) * 1000
      /\ Len(fDelays) >= 1 => fDelays[1] = 2000
      /\ Len(fDelays) >= 2 => fDelays[2] = 4000

C12_Witness ==
  /\ fMax = 3
  /\ Len(fLog) = 3
  /\ Is429(fLog[1]) /\ Is429(fLog[2])
  /\ fLog[3].status = 200
  /\ fResult.kind = "returned"
  /\ fDelays = <<2000, 4000>>

\* C13: a response whose status is not 429 is returned at once: it is the
\* last request of the call and it is the result.
C13_NoRetryOfOtherStatus ==
  \A i \in 1..Len(fLog) :
    (~fLog[i].err /\ fLog[i].status # 429) =>
      /\ i = Len(fLog)
      /\ fPc = "over"
      /\ fResult = Returned(fLog[i])

C13_Witness ==
  /\ Len(fLog) = 1
  /\ fMax = 3
  /\ fLog[1].status = 503
  /\ fResult.kind = "returned"

\* C14: with maxRetries >= 1 at most maxRetries requests are made, transport
\* failures and 429 responses alike; a call that is over made at least one,
\* and either returned the response of its last request, or threw the error
\* of its last request, which then was request number maxRetries.
C14_AttemptBudget ==
  fMax >= 1 =>
    /\ Len(fLog) <= fMax
    /\ fPc = "over" =>
         /\ Len(fLog) >= 1
         /\ fResult.kind \in {"returned", "thrown"}
         /\ fResult.kind = "returned" =>
              /\ ~fLog[Len(fLog)].err
              /\ fResult = Returned(fLog[Len(fLog)])
         /\ fResult.kind = "thrown" =>
              /\ Len(fLog) = fMax
              /\ fLog[Len(fLog)].err
              /\ fResult = Thrown(fLog[Len(fLog)])

C14_Witness ==
  /\ fMax = 3
  /\ Len(fLog) = 3
  /\ fLog[1].err
  /\ Is429(fLog[2])
  /\ fLog[3].err
  /\ fResult.kind = "thrown"


(* ------------------- properties of the domain tasks -------------------- *)

AnyCallFailed(d) == \E j \in 1..Len(calls[d]) : ~calls[d][j].ok

\* the terminal state that the task's own probe result, health reports and
\* control-plane results call for
OutcomeOf(d) ==
  IF probe[d] = "true" THEN "Unchanged"
  ELSE IF AnyCallFailed(d) THEN "Failed"
  ELSE IF NoneHealthy(d) THEN "Aborted"
  ELSE "Completed"

\* the task made every call that its own results call for
RanToItsEnd(d) ==
  /\ Len(notes[d]) = (IF outcome[d] = "Unchanged" THEN 0 ELSE 2)
  /\ outcome[d] = "Unchanged" => calls[d] = <<>> /\ checked[d] = <<>>
  /\ outcome[d] = "Failed" => ~calls[d][Len(calls[d])].ok
  /\ outcome[d] = "Aborted" =>
       /\ Len(calls[d]) = 1
       /\ Len(checked[d]) = Len(tunnels[d])
  /\ outcome[d] = "Completed" =>
       /\ Len(calls[d]) = (IF currentTunnelIndex[d] = -1 THEN 4 ELSE 6)
       /\ checked[d][Len(checked[d])].healthy

\* C15: in a run over two domains with shared tunnels, under every
\* interleaving and every combination of failures, each task that is over
\* is in Unchanged, Completed, Aborted or Failed, namely the one its own
\* results call for, having made all of its own calls; a task that is not
\* over always has a step to take; handleFailover gets past
\* Promise.allSettled only when every task is over, and eventually does.
C15_IndependentTasks ==
  /\ [](\A d \in active :
          /\ pc[d] = "done" =>
               /\ outcome[d] \in Terminal
               /\ outcome[d] = OutcomeOf(d)
               /\ RanToItsEnd(d)
          /\ pc[d] # "done" => ENABLED DomainStep(d))
  /\ [](run = "settled" => \A d \in active : pc[d] = "done")
  /\ <>(run = "settled")

C15_Witness ==
  /\ run = "settled"
  /\ outcome[Domain1] = "Failed"
  /\ Len(calls[Domain1]) = 2
  /\ outcome[Domain2] = "Completed"
  /\ Len(calls[Domain2]) = 6


\* C16: a failed DNS read, rule addition, DNS update or rule removal is the
\* last call of the pass and leads to the catch block, which notifies and
\* ends the pass in Failed; no task ever ends with a rejected promise,
\* whatever the control plane and the notification endpoint answer.
C16_ErrorsBecomeFailed ==
  \A d \in active :
    /\ outcome[d] # "Rejected"
    /\ AnyCallFailed(d) =>
         /\ ~calls[d][Len(calls[d])].ok
         /\ \A j \in 1..(Len(calls[d]) - 1) : calls[d][j].ok
         /\ pc[d] \in {"catch", "done"}
         /\ pc[d] = "done" =>
              /\ outcome[d] = "Failed"
              /\ notes[d][Len(notes[d])] = "failed"

C16_Witness ==
  \E d \in active :
    /\ outcome[d] = "Failed"
    /\ Len(calls[d]) = 5
    /\ response[d].from = "telegram"
    /\ response[d].err

\* the place a task goes to after a notification, whatever its delivery
AfterNotification(at) == IF at = "notifyUnreachable" THEN "getDnsRecord" ELSE "done"

NotifyPlaces == {"notifyUnreachable", "notifyCompleted", "notifyAborted", "catch"}

\* C17: a notification step changes nothing but the notification log and
\* the task's position, and the new position depends on the old one only,
\* not on how the delivery went; a task that is over is in the terminal
\* state its probe, health and control-plane results call for, after all the
\* calls they call for; a Completed pass has pointed the record at the
\* selected tunnel, an Unchanged or Aborted one has changed nothing.
C17_DeliveryIrrelevant ==
  /\ [][\A d \in active :
          (pc[d] \in NotifyPlaces /\ pc'[d] # pc[d]) =>
            /\ pc'[d] = AfterNotification(pc[d])
            /\ calls' = calls /\ checked' = checked
            /\ dns' = dns /\ ingress' = ingress]_vars
  /\ [](\A d \in active :
          pc[d] = "done" =>
            /\ outcome[d] = OutcomeOf(d)
            /\ RanToItsEnd(d)
            /\ outcome[d] = "Completed" =>
                 dns[d][1].content = CnameAt(d, nextTunnelIndex[d])
            /\ outcome[d] \in {"Unchanged", "Aborted"} =>
                 dns = dns0 /\ ingress = ingress0)

C17_Witness ==
  \E d \in active :
    /\ outcome[d] = "Completed"
    /\ response[d].from = "telegram"
    /\ ~response[d].err
    /\ ~response[d].success
    /\ currentTunnelIndex[d] # -1

\* C18: a health check counts as healthy exactly when the status call came
\* back with success true and status 'healthy'; after any other answer
\* (failed call, success false, no result, other status) the task stays in
\* the scan or leaves it without a selection, never in the catch block; a
\* pass ends Failed only if one of its control-plane calls failed.
C18_HealthCheckIsBoolean ==
  \A d \in active :
    /\ response[d].from = "checkTunnelHealth" =>
         LET last == checked[d][Len(checked[d])]
             reallyHealthy == /\ ~response[d].err
                              /\ response[d].success
                              /\ response[d].body = "healthy"
         IN
           /\ last.healthy = reallyHealthy
           /\ reallyHealthy => pc[d] = "addRead"
           /\ ~reallyHealthy => pc[d] \in {"scan", "notifyAborted"}
           /\ pc[d] = "notifyAborted" => NoneHealthy(d)
    /\ pc[d] = "catch" => AnyCallFailed(d)
    /\ outcome[d] = "Failed" => AnyCallFailed(d)

C18_Witness ==
  \E d \in active :
    /\ response[d].from = "checkTunnelHealth"
    /\ response[d].success
    /\ response[d].body = "missing"
    /\ pc[d] = "scan"
    /\ Len(checked[d]) = 2

\* C19: the probe counts as reachable exactly when a response came back
\* with a status in [200, 400); after a transport error or any other status
\* the task goes on to the failover path: it notifies, reads the DNS record,
\* and never ends Unchanged, nor Failed without a failed control-plane call.
C19_ProbeIsBoolean ==
  \A d \in active :
    /\ response[d].from = "probe" =>
         /\ (probe[d] = "true") =
              (~response[d].err /\ response[d].status \in 200..399)
         /\ probe[d] = "false" => pc[d] = "notifyUnreachable"
    /\ probe[d] = "false" =>
         /\ outcome[d] # "Unchanged"
         /\ pc[d] \notin {"probe", "notifyUnreachable"} => Len(notes[d]) >= 1
         /\ pc[d] = "done" => Len(calls[d]) >= 1
         /\ outcome[d] = "Failed" => AnyCallFailed(d)

C19_Witness ==
  \E d \in active :
    /\ response[d].from = "probe"
    /\ response[d].err
    /\ probe[d] = "false"
    /\ pc[d] = "notifyUnreachable"

\* the first call of d, the DNS read, failed
DnsReadFailed(d) == Len(calls[d]) >= 1 /\ ~calls[d][1].ok

\* C20: in a run over two domains, a DNS lookup that finds no CNAME record
\* or comes back without success fails; the domain then makes no health
\* check and no further call, its record is as at the start, and it ends
\* Failed; the other domain still takes its steps and ends in the state its
\* own results call for.
C20_MissingRecordFails ==
  \A d \in active :
    /\ (response[d].from = "getDnsRecord"
          /\ (~response[d].success \/ Len(dns0[d]) = 0)) => DnsReadFailed(d)
    /\ DnsReadFailed(d) =>
         /\ Len(calls[d]) = 1
         /\ checked[d] = <<>>
         /\ dns[d] = dns0[d]
         /\ pc[d] \in {"catch", "done"}
         /\ pc[d] = "done" => outcome[d] = "Failed"
         /\ \A e \in active \ {d} :
              /\ pc[e] # "done" => ENABLED DomainStep(e)
              /\ pc[e] = "done" => outcome[e] = OutcomeOf(e) /\ RanToItsEnd(e)

C20_Witness ==
  /\ Len(dns0[Domain1]) = 0
  /\ response[Domain1].success
  /\ outcome[Domain1] = "Failed"
  /\ outcome[Domain2] = "Completed"
  /\ checked[Domain1] = <<>>


ConfigReads == {"addTunnelRule.get", "removeTunnelRule.get"}

ConfigWrites == {"addTunnelRule.put", "removeTunnelRule.put"}

\* the last call of d was a configuration read or write that failed
ConfigCallFailed(d, ops) ==
  /\ Len(calls[d]) >= 1
  /\ calls[d][Len(calls[d])].op \in ops
  /\ ~calls[d][Len(calls[d])].ok

\* C21: a configuration read or write answered with success=false (or not
\* answered) fails the rule edit: the task goes to the catch block and ends
\* Failed, the failed call is its last call, so no write follows a failed
\* read; the step of a failed read or write leaves every tunnel's
\* configuration and the DNS record as they were, and so does every step
\* after a failed call.
C21_RuleEditFailure ==
  /\ [](\A d \in active :
          /\ (response[d].from \in ConfigReads \cup ConfigWrites
                /\ ~response[d].success) =>
               /\ ConfigCallFailed(d, {response[d].from})
               /\ pc[d] = "catch"
          /\ ConfigCallFailed(d, ConfigReads \cup ConfigWrites) =>
               /\ pc[d] \in {"catch", "done"}
               /\ pc[d] = "done" => outcome[d] = "Failed"
          /\ \A j \in 1..(Len(calls[d]) - 1) : calls[d][j].ok)
  /\ [][\A d \in active :
          (AnyCallFailed(d)' /\ pc'[d] # pc[d]) =>
             /\ ingress' = ingress
             /\ dns' = dns
             /\ AnyCallFailed(d) => calls'[d] = calls[d]]_vars

C21_Witness ==
  \E d \in active :
    /\ outcome[d] = "Failed"
    /\ ConfigCallFailed(d, {"removeTunnelRule.get"})
    /\ calls[d][2].op = "addTunnelRule.get"
    /\ dns[d] # dns0[d]


\* C22: a POST whose DOMAINS_CONFIG is not JSON is answered with status 500
\* and the error text, and no task of a pass is started.
C22_BadConfigAnswered500 ==
  (hPc = "responded" /\ hMethod = "POST" /\ hConfig = "invalid") =>
    /\ hResponse = ErrorResponse
    /\ active = {}

\* C23: once a POST has started the pass, the response is the confirmation
\* with status 200; it is returned while every task is still at its probe,
\* and no later step of the pass changes it, whatever the tasks end in; a
\* request with another method starts nothing.
C23_ResponseIndependent ==
  /\ []((hPc = "responded" /\ run \in {"awaiting", "settled"}) =>
          hResponse = Confirmation)
  /\ [](hMethod # "POST" => run = "idle" /\ active = {})
  /\ [][(hPc = "request" /\ hPc' = "responded") =>
          \A d \in active' : pc'[d] = "probe"]_vars
  /\ [][hPc = "responded" => hResponse' = hResponse /\ hPc' = hPc]_vars

C23_Witness ==
  /\ hPc = "responded"
  /\ hResponse = Confirmation
  /\ run = "settled"
  /\ outcome[Domain1] = "Failed"


\* the tunnel the stopped pass was leaving holds a rule for d
OldRuleKept(d) == oldTunnel \in AllTunnels /\ HasRuleFor(ingress[oldTunnel], d)

\* a later run starts after the pass of d was stopped past the addition of
\* its rule on another tunnel and the DNS update, short of the removal: the
\* record points at another tunnel and the old tunnel still holds d's rule
RerunAfterInterruption(d) ==
  /\ crashed
  /\ run = "awaiting"
  /\ pc[d] = "probe"
  /\ OldRuleKept(d)
  /\ \E t \in AllTunnels \ {oldTunnel} :
       dns[d] = <<[id |-> d, content |-> TunnelCname(t)]>>

\* C24, for the later runs that find the domain reachable: after such an
\* interruption the runs eventually end with the old tunnel holding no rule
\* for the domain, unless one of them finds the domain unreachable.
C24_ConvergesAfterInterruption ==
  \A d \in Domains :
    RerunAfterInterruption(d) ~>
      ((run = "settled" /\ ~OldRuleKept(d)) \/ probe[d] = "false")


\* d has moved from another tunnel to t, and its pass ended Completed
MovedTo(d, t) ==
  /\ outcome[d] = "Completed"
  /\ TunnelAt(d, nextTunnelIndex[d]) = t
  /\ TunnelAt(d, currentTunnelIndex[d]) # t

\* C25: when the passes of two domains have both ended Completed after
\* moving the domain to the same tunnel, that tunnel's ingress holds a rule
\* for each of the two domains.
C25_NoLostUpdate ==
  \A t \in AllTunnels :
    (\A d \in Domains : MovedTo(d, t)) =>
      (\A d \in Domains : HasRuleFor(ingress[t], d))


\* the rules of ing that have a hostname other than d, in their order
OtherHosted(ing, d) ==
  SelectSeq(ing, LAMBDA rule : rule.hostname # NoHost /\ rule.hostname # d)

\* C26: after every addTunnelRule or removeTunnelRule for a domain, the
\* rules with a hostname other than the domain's are the ones the tunnel
\* held before, unchanged and in the same order; an edit that fails leaves
\* the list as it was; no other tunnel's configuration and no DNS record is
\* written.
C26_FrameOfRuleEdits ==
  /\ \A j \in 1..Len(rCalls) :
       /\ OtherHosted(rCalls[j].config, rCalls[j].domain)
            = OtherHosted(rCalls[j].read, rCalls[j].domain)
       /\ rCalls[j].res # "ok" => rCalls[j].config = rCalls[j].read
  /\ dns = dns0
  /\ ingress = ingress0

C26_Witness ==
  \E j \in 1..Len(rCalls) :
    /\ rCalls[j].res = "ok"
    /\ rCalls[j].op = "remove"
    /\ Len(rCalls[j].read) = 3
    /\ rCalls[j].read[2].hostname = rCalls[j].domain
    /\ Len(OtherHosted(rCalls[j].read, rCalls[j].domain)) = 2
    /\ rCalls[j].read[1].service # rCalls[j].read[3].service


\* how many of the calls of d were one of ops
CountOps(d, ops) == Cardinality({ j \in 1..Len(calls[d]) : calls[d][j].op \in ops })

\* C27: when every call comes back, the run settles with every task in a
\* terminal state; a task makes at most as many health checks as it has
\* tunnels, at most two configuration writes and at most one DNS update; a
\* call that ends in an error after its retries sends the task to the catch
\* block and to Failed, or, for a health check, counts as unhealthy and the
\* task goes on.
C27_Termination ==
  /\ <>(run = "settled")
  /\ [](run = "settled" => \A d \in active : outcome[d] \in Terminal)
  /\ [](\A d \in active :
          /\ Len(checked[d]) <= Len(tunnels[d])
          /\ CountOps(d, ConfigWrites) <= 2
          /\ CountOps(d, {"updateDnsRecord"}) <= 1
          /\ Len(calls[d]) <= 6
          /\ (response[d].err /\ response[d].from \in MutatingOps \cup {"getDnsRecord"}) =>
               /\ pc[d] = "catch"
               /\ ~calls[d][Len(calls[d])].ok
          /\ (response[d].err /\ response[d].from = "checkTunnelHealth") =>
               /\ ~checked[d][Len(checked[d])].healthy
               /\ pc[d] \in {"scan", "notifyAborted"}
          /\ AnyCallFailed(d) /\ pc[d] = "done" => outcome[d] = "Failed")

C27_Witness ==
  /\ run = "settled"
  /\ outcome[Domain1] = "Failed"
  /\ outcome[Domain2] = "Completed"
  /\ Len(checked[Domain2]) = Len(tunnels[Domain2])
  /\ CountOps(Domain2, ConfigWrites) = 2
  /\ CountOps(Domain2, {"updateDnsRecord"}) = 1


\* the field starts with an integer: a digit, or a sign and a digit
StartsWithInteger(field) ==
  \/ Len(field) >= 1 /\ field[1] \in Digits
  \/ Len(field) >= 2 /\ field[1] \in {"-", "+"} /\ field[2] \in Digits

\* C28: verify returns "" exactly when the last ':'-separated field of the
\* sign starts with an integer expire that is <= 0 or not before the current
\* time in seconds, and the sign is the signature of the path with that
\* expire; otherwise it returns the first that applies of 'expire missing'
\* (empty field), 'expire invalid' (no integer), 'expire expired', 'sign
\* mismatch'; handleDownload then builds the answer with code 401 and makes
\* no backend request, and makes the backend request only after "".
C28_SignedDownloadGate ==
  vPc \in {"verified", "done"} =>
    LET field == LastField(vSign)
        expire == ParseInt(field).val
        inTime == expire <= 0 \/ expire * 1000 >= vNow
        signed == vSign = HmacSha256Sign(vData, expire)
    IN
      /\ (vResult = "") = (StartsWithInteger(field) /\ inTime /\ signed)
      /\ vResult = (IF field = <<>> THEN "expire missing"
                    ELSE IF ~StartsWithInteger(field) THEN "expire invalid"
                    ELSE IF ~inTime THEN "expire expired"
                    ELSE IF ~signed THEN "sign mismatch"
                    ELSE "")
      /\ vPc = "done" =>
           /\ vResult # "" => vReply = 401 /\ vBackend = 0
           /\ vResult = "" => vReply = 0 /\ vBackend = 1

C28_Witness ==
  /\ vPc = "done"
  /\ vResult = ""
  /\ vBackend = 1
  /\ ParseInt(LastField(vSign)).val = 0
  /\ vNow = 1500

====
